---- MODULE Spec2Model ----
(***************************************************************************)
(* apt-mc (src/main.py): a command-line package manager for server         *)
(* plugins.  The install directory is the only persistent state; every     *)
(* command (remove, list, install, upgrade) is one sequential run over it. *)
(* The registry (Modrinth) is the environment: each call either fails or   *)
(* answers from a fixed catalogue, in an order the registry chooses.       *)
(***************************************************************************)
EXTENDS Naturals, Integers, Sequences, FiniteSets, TLC

(***************************************************************************)
(* Bounds of the model.                                                    *)
(***************************************************************************)
\* most .jar files in the install directory when a command starts
MaxInstalled == 2
\* chunks r.iter_content yields for one file
ChunkCount == 2
\* most package arguments of one install command
MaxArgs == 2

(***************************************************************************)
(* Strings.  A filename or a pattern is a string; Chars gives the          *)
(* characters of the strings the model uses, so that endswith, lower and   *)
(* the substring test are computed as Python computes them.                *)
(***************************************************************************)
FileNames == {"F1.jar", "f2.jar", "g.jar", "f.txt"}

Patterns == {"f", "F1", "g", "jar", "txt", "zz"}

Chars(s) ==
    CASE s = "F1.jar" -> <<"F", "1", ".", "j", "a", "r">>
      [] s = "f2.jar" -> <<"f", "2", ".", "j", "a", "r">>
      [] s = "g.jar"  -> <<"g", ".", "j", "a", "r">>
      [] s = "f.txt"  -> <<"f", ".", "t", "x", "t">>
      [] s = ".jar"   -> <<".", "j", "a", "r">>
      [] s = "f"      -> <<"f">>
      [] s = "F1"     -> <<"F", "1">>
      [] s = "g"      -> <<"g">>
      [] s = "jar"    -> <<"j", "a", "r">>
      [] s = "txt"    -> <<"t", "x", "t">>
      [] s = "zz"     -> <<"z", "z">>

\* str.lower() on one character of the alphabet above
LowerChar(c) == IF c = "F" THEN "f" ELSE c

\* str.lower()
Lower(cs) == [n \in 1..Len(cs) |-> LowerChar(cs[n])]

\* str.endswith(suffix)
EndsWith(cs, suffix) ==
    /\ Len(suffix) <= Len(cs)
    /\ SubSeq(cs, Len(cs) - Len(suffix) + 1, Len(cs)) = suffix

\* Python's `sub in s` on strings
Contains(cs, sub) ==
    \E n \in 0..(Len(cs) - Len(sub)) : SubSeq(cs, n + 1, n + Len(sub)) = sub

\* f.endswith(".jar")
IsJar(f) == EndsWith(Chars(f), Chars(".jar"))

(***************************************************************************)
(* Sequences and Python dicts.  A dict is a sequence of <<key, value>>     *)
(* pairs with distinct keys, in insertion order.                           *)
(***************************************************************************)
Range(s) == {s[n] : n \in 1..Len(s)}

\* all orderings of a finite set, as sequences without repetition
Perms(S) ==
    {s \in [1..Cardinality(S) -> S] : \A a, b \in 1..Cardinality(S) : s[a] = s[b] => a = b}

DictKeys(d) == {d[n][1] : n \in 1..Len(d)}

DictHas(d, key) == key \in DictKeys(d)

\* d[key], for a key of d
DictGet(d, key) == d[CHOOSE n \in 1..Len(d) : d[n][1] = key][2]

\* d[key] = val: a present key keeps its position, a new key goes last
DictSet(d, key, val) ==
    IF DictHas(d, key)
    THEN [n \in 1..Len(d) |-> IF d[n][1] = key THEN <<key, val>> ELSE d[n]]
    ELSE Append(d, <<key, val>>)

\* position of key in d's iteration order (0 when absent)
DictPos(d, key) ==
    IF DictHas(d, key) THEN CHOOSE n \in 1..Len(d) : d[n][1] = key ELSE 0

(***************************************************************************)
(* File contents.  A content is the first `len` chunks of the byte stream  *)
(* `src`: a file of the registry (its url) or a file of local origin.      *)
(***************************************************************************)
Content(src, len) == [src |-> src, len |-> len]

Full(src) == Content(src, ChunkCount)

\* the content of a file just created or truncated by open(path, "wb")
Empty == Content("", 0)

\* the content after f.write of the next chunk of url
WriteChunk(c, url) == Content(url, c.len + 1)

\* PackageManager.calculate_sha1: a digest that depends on the bytes alone
\* and separates distinct contents
calculate_sha1(c) == <<"sha1", c.src, c.len>>

(***************************************************************************)
(* The registry's catalogue, as ModrinthAPI's JSON answers describe it.    *)
(***************************************************************************)
Project(id, slug) == [id |-> id, slug |-> slug]

FileRef(url, filename, primary) ==
    [url |-> url, filename |-> filename, primary |-> primary]

VersionRecord(id, project_id, version_number, files) ==
    [id |-> id, project_id |-> project_id,
     version_number |-> version_number, files |-> files]

VersionIds == {"v1", "v2", "v3", "w1", "w2"}

Version(id) ==
    CASE id = "v1" -> VersionRecord("v1", "P1", "1.0",
                        <<FileRef("u_v1", "F1.jar", TRUE)>>)
      [] id = "v2" -> VersionRecord("v2", "P1", "2.0",
                        <<FileRef("u_v2src", "f.txt", FALSE),
                          FileRef("u_v2", "f2.jar", TRUE)>>)
      [] id = "v3" -> VersionRecord("v3", "P1", "3.0", << >>)
      [] id = "w1" -> VersionRecord("w1", "P2", "1.0",
                        <<FileRef("u_w1", "g.jar", FALSE)>>)
      [] id = "w2" -> VersionRecord("w2", "P2", "1.1",
                        <<FileRef("u_w2", "g.jar", FALSE),
                          FileRef("u_w2api", "F1.jar", FALSE)>>)

\* what GET /project/{id_or_slug} answers: the project, or 404
ProjectOf(id_or_slug) ==
    CASE id_or_slug \in {"P1", "alpha"} -> <<Project("P1", "alpha")>>
      [] id_or_slug \in {"P2", "beta"}  -> <<Project("P2", "beta")>>
      [] OTHER -> << >>

\* what GET /project/{id}/version can answer, as sequences of version ids
VersionLists(project_id) ==
    CASE project_id = "P1" -> {<< >>, <<"v1">>, <<"v2", "v1">>, <<"v1", "v2">>, <<"v3", "v2", "v1">>}
      [] project_id = "P2" -> {<< >>, <<"w1">>, <<"w2", "w1">>}

\* the version whose file has this sha1, if any (POST /version_files)
VersionOfHash(h) ==
    {id \in VersionIds :
       \E n \in 1..Len(Version(id).files) :
          h = calculate_sha1(Full(Version(id).files[n].url))}

\* PrimaryFile with the flag ignored: the first file
PrimaryFileFirst(files) == files[1]

\* next((f for f in files if f.get("primary")), files[0]), for files that
\* are not empty
PrimaryFile(files) ==
    IF \E n \in 1..Len(files) : files[n].primary
    THEN files[CHOOSE n \in 1..Len(files) :
                 /\ files[n].primary
                 /\ \A m \in 1..(n - 1) : ~files[m].primary]
    ELSE files[1]

VARIABLES
    cmd,            \* the command of this run
    pc,             \* position in the command
    dirExists,      \* os.path.exists(plugins_dir)
    dir,            \* the install directory: filename -> content
    dir0,           \* the install directory when the command started
    out,            \* what console.print has written, in order
    log,            \* registry calls and file operations, in order
    package,        \* remove: the argument
    candidates,     \* remove: the matching filenames, in os.listdir order
    packages,       \* install: the arguments
    to_install,     \* install: the projects found
    installed,      \* upgrade, list: get_installed_plugins(), filename -> sha1
    versions_map,   \* upgrade, list: the answer of get_versions_by_hashes
    sha1_to_filename, \* upgrade, list: installed inverted
    updates,        \* upgrade: the upgrades found
    i,              \* index of the running loop
    dl              \* download_file: its arguments and the file before the call

vars == <<cmd, pc, dirExists, dir, dir0, out, log, package, candidates,
          packages, to_install, installed, versions_map, sha1_to_filename,
          updates, i, dl>>

removeVars == <<package, candidates>>
installVars == <<packages, to_install>>
upgradeVars == <<installed, versions_map, sha1_to_filename, updates>>

\* one line of console output: its kind and the names it mentions
Msg(kind, names) == [kind |-> kind, names |-> names]

\* one registry call or file operation: what, on which name, for which item
\* of the running loop, with which result, and the version ids returned
Ev(ev, name, item, res, ids) ==
    [ev |-> ev, name |-> name, item |-> item, res |-> res, ids |-> ids]

NoDownload == [filename |-> "", url |-> "", before |-> << >>]

(***************************************************************************)
(* The install directories a command can start from.                       *)
(***************************************************************************)
\* a file that did not come from the registry
LocalContent == Content("local", 1)

\* the directories whose files hold contents of C, with at most MaxInstalled
\* plugin files
InitDirs(C) ==
    UNION {[S -> C] :
             S \in {T \in SUBSET FileNames :
                      Cardinality({f \in T : IsJar(f)}) <= MaxInstalled}}

InitDir(C) ==
    /\ dirExists \in BOOLEAN
    /\ dir \in InitDirs(C)
    /\ ~dirExists => dir = << >>
    /\ dir0 = dir
    /\ out = << >>
    /\ log = << >>
    /\ i = 0
    /\ dl = NoDownload

NoRemove == package = "" /\ candidates = << >>

NoInstall == packages = << >> /\ to_install = << >>

NoUpgrade ==
    /\ installed = << >>
    /\ versions_map = << >>
    /\ sha1_to_filename = << >>
    /\ updates = << >>

(***************************************************************************)
(* remove <package>                                                        *)
(***************************************************************************)
InitRemove ==
    /\ InitDir({LocalContent})
    /\ cmd = "remove"
    /\ pc = "remove"
    /\ package \in Patterns
    /\ candidates = << >>
    /\ NoInstall
    /\ NoUpgrade

\* RemoveCandidates with the case of the pattern and the filename kept
RemoveCandidatesCaseKept(order, pattern) ==
    SelectSeq(order, LAMBDA f : IsJar(f) /\ Contains(Chars(f), Chars(pattern)))

\* the comprehension of line 463 over one os.listdir order
RemoveCandidates(order, pattern) ==
    SelectSeq(order, LAMBDA f : IsJar(f) /\ Contains(Lower(Chars(f)), Lower(Chars(pattern))))

\* lines 459-461: no install directory
RemoveNoDir ==
    /\ cmd = "remove" /\ pc = "remove"
    /\ ~dirExists
    /\ out' = Append(out, Msg("E: Unable to locate package", {package}))
    /\ pc' = "done"
    /\ UNCHANGED <<cmd, dirExists, dir, dir0, log, package, candidates, installVars, upgradeVars, i, dl>>

\* lines 463-474 over one os.listdir order
RemoveIn(order) ==
    /\ LET cs == RemoveCandidates(order, package) IN
       /\ candidates' = cs
       /\ IF cs = << >>
          THEN /\ out' = Append(out, Msg("E: Unable to locate package", {package}))
               /\ UNCHANGED <<dir, log>>
          ELSE IF Len(cs) > 1
          THEN /\ out' = Append(out, Msg("E: Multiple candidates found", {package}))
               /\ UNCHANGED <<dir, log>>
          ELSE /\ dir' = [f \in DOMAIN dir \ {cs[1]} |-> dir[f]]
               /\ log' = Append(log, Ev("os.remove", cs[1], 0, "ok", << >>))
               /\ out' = Append(out, Msg("Removing", {package, cs[1]}))
    /\ pc' = "done"
    /\ UNCHANGED <<cmd, dirExists, dir0, package, installVars, upgradeVars, i, dl>>

RemoveRun ==
    /\ cmd = "remove" /\ pc = "remove"
    /\ dirExists
    /\ \E order \in Perms(DOMAIN dir) : RemoveIn(order)

Remove ==
    \/ RemoveNoDir
    \/ RemoveRun

SpecRemove == InitRemove /\ [][Remove]_vars

(***************************************************************************)
(* PackageManager.download_file, called by install and upgrade for item i  *)
(* of their loop.                                                          *)
(***************************************************************************)
LoopOf(c) == IF c = "install" THEN "install_loop" ELSE "apply"

\* the call, on the directory `files` and after the events `logged`: the
\* arguments are bound; nothing is written yet
DownloadCall(ref, files, logged) ==
    /\ dl' = [filename |-> ref.filename, url |-> ref.url,
              before |-> IF ref.filename \in DOMAIN files
                         THEN <<files[ref.filename]>> ELSE << >>]
    /\ log' = Append(logged, Ev("download", ref.filename, i, "start", << >>))
    /\ pc' = "dl_get"

\* DownloadFailed with the failure ending the command instead of the item
DownloadFailedAborts ==
    /\ out' = Append(out,
                IF cmd = "install"
                THEN Msg("E: Failed to install", {to_install[i].slug})
                ELSE Msg("E: Failed to upgrade", {updates[i].filename}))
    /\ log' = Append(log, Ev("download", dl.filename, i, "failed", << >>))
    /\ i' = i
    /\ pc' = "done"

\* the except clauses of lines 352-353 (install) and 448-449 (upgrade):
\* the failure is printed and the loop goes on with the next item
DownloadFailed ==
    /\ out' = Append(out,
                IF cmd = "install"
                THEN Msg("E: Failed to install", {to_install[i].slug})
                ELSE Msg("E: Failed to upgrade", {updates[i].filename}))
    /\ log' = Append(log, Ev("download", dl.filename, i, "failed", << >>))
    /\ i' = i + 1
    /\ pc' = LoopOf(cmd)

\* line 73-74: requests.get or raise_for_status raises
DownloadGetFails ==
    /\ pc = "dl_get"
    /\ DownloadFailed
    /\ UNCHANGED <<cmd, dirExists, dir, dir0, removeVars, installVars, upgradeVars, dl>>

\* lines 73-84: the response is there, open(dest_path, "wb") creates or
\* truncates the destination
DownloadOpen ==
    /\ pc = "dl_get"
    /\ dir' = [f \in DOMAIN dir \cup {dl.filename} |->
                 IF f = dl.filename THEN Empty ELSE dir[f]]
    /\ log' = Append(log, Ev("open", dl.filename, i, "ok", << >>))
    /\ pc' = "dl_write"
    /\ UNCHANGED <<cmd, dirExists, dir0, out, removeVars, installVars, upgradeVars, i, dl>>

\* lines 85-86: one more chunk arrives and is written
DownloadWrite ==
    /\ pc = "dl_write"
    /\ dir[dl.filename].len < ChunkCount
    /\ dir' = [dir EXCEPT ![dl.filename] = WriteChunk(@, dl.url)]
    /\ UNCHANGED <<cmd, pc, dirExists, dir0, out, log, removeVars, installVars, upgradeVars, i, dl>>

\* line 85: the stream breaks before the last chunk
DownloadStreamFails ==
    /\ pc = "dl_write"
    /\ dir[dl.filename].len < ChunkCount
    /\ DownloadFailed
    /\ UNCHANGED <<cmd, dirExists, dir, dir0, removeVars, installVars, upgradeVars, dl>>

\* the stream ends and download_file returns
DownloadDone ==
    /\ pc = "dl_write"
    /\ dir[dl.filename].len = ChunkCount
    /\ log' = Append(log, Ev("download", dl.filename, i, "done", << >>))
    /\ i' = i + 1
    /\ pc' = LoopOf(cmd)
    /\ UNCHANGED <<cmd, dirExists, dir, dir0, out, removeVars, installVars, upgradeVars, dl>>

Download ==
    \/ DownloadGetFails
    \/ DownloadOpen
    \/ DownloadWrite
    \/ DownloadStreamFails
    \/ DownloadDone

(***************************************************************************)
(* install <packages...>                                                   *)
(***************************************************************************)
InstallArgs == {"alpha", "P2", "nope"}

\* install does not read the inventory: a file that is there before matters
\* only as the destination of a transfer, so one such file is enough
InitInstall ==
    /\ InitDir({LocalContent})
    /\ Cardinality(DOMAIN dir) <= 1
    /\ cmd = "install"
    /\ pc = "install"
    /\ packages \in UNION {[1..n -> InstallArgs] : n \in 0..MaxArgs}
    /\ to_install = << >>
    /\ NoRemove
    /\ NoUpgrade

\* InstallNoPackages without the check of line 314: the command goes on to
\* its resolve loop
InstallNoPackagesGoesOn ==
    /\ cmd = "install" /\ pc = "install"
    /\ packages = << >>
    /\ dirExists' = TRUE
    /\ i' = 1
    /\ pc' = "resolve"
    /\ UNCHANGED <<cmd, dir, dir0, out, log, removeVars, installVars, upgradeVars, dl>>

\* lines 314-316
InstallNoPackages ==
    /\ cmd = "install" /\ pc = "install"
    /\ packages = << >>
    /\ out' = Append(out, Msg("E: No packages specified.", {}))
    /\ pc' = "done"
    /\ UNCHANGED <<cmd, dirExists, dir, dir0, log, removeVars, installVars, upgradeVars, i, dl>>

\* lines 318-324: ensure_dir
InstallStart ==
    /\ cmd = "install" /\ pc = "install"
    /\ packages # << >>
    /\ dirExists' = TRUE
    /\ i' = 1
    /\ pc' = "resolve"
    /\ UNCHANGED <<cmd, dir, dir0, out, log, removeVars, installVars, upgradeVars, dl>>

\* InstallResolve with an unknown package ending the command
InstallResolveUnknownEnds ==
    /\ cmd = "install" /\ pc = "resolve"
    /\ i <= Len(packages)
    /\ LET project == ProjectOf(packages[i]) IN
       /\ log' = Append(log, Ev("get_project", packages[i], i,
                                IF project # << >> THEN "ok" ELSE "404", << >>))
       /\ IF project # << >>
          THEN /\ to_install' = Append(to_install, project[1])
               /\ UNCHANGED <<out, pc>>
          ELSE /\ out' = Append(out, Msg("E: Unable to locate package", {packages[i]}))
               /\ pc' = "done"
               /\ UNCHANGED to_install
    /\ i' = i + 1
    /\ UNCHANGED <<cmd, dirExists, dir, dir0, removeVars, packages, upgradeVars, dl>>

\* lines 325-331: one package is looked up
InstallResolve ==
    /\ cmd = "install" /\ pc = "resolve"
    /\ i <= Len(packages)
    /\ LET project == ProjectOf(packages[i]) IN
       /\ log' = Append(log, Ev("get_project", packages[i], i,
                                IF project # << >> THEN "ok" ELSE "404", << >>))
       /\ IF project # << >>
          THEN /\ to_install' = Append(to_install, project[1])
               /\ UNCHANGED out
          ELSE /\ out' = Append(out, Msg("E: Unable to locate package", {packages[i]}))
               /\ UNCHANGED to_install
    /\ i' = i + 1
    /\ UNCHANGED <<cmd, pc, dirExists, dir, dir0, removeVars, packages, upgradeVars, dl>>

\* line 327: get_project raises (no handler in install)
InstallResolveRaises ==
    /\ cmd = "install" /\ pc = "resolve"
    /\ i <= Len(packages)
    /\ log' = Append(log, Ev("get_project", packages[i], i, "error", << >>))
    /\ pc' = "raised"
    /\ UNCHANGED <<cmd, dirExists, dir, dir0, out, removeVars, installVars, upgradeVars, i, dl>>

\* lines 333-340: nothing found ends the command, else the plan is printed
InstallPlanned ==
    /\ cmd = "install" /\ pc = "resolve"
    /\ i > Len(packages)
    /\ IF to_install = << >>
       THEN /\ pc' = "done"
            /\ UNCHANGED <<out, i>>
       ELSE /\ out' = Append(out, Msg("The following NEW packages will be installed",
                                      {to_install[n].slug : n \in 1..Len(to_install)}))
            /\ i' = 1
            /\ pc' = "install_loop"
    /\ UNCHANGED <<cmd, dirExists, dir, dir0, log, removeVars, installVars, upgradeVars, dl>>

\* line 344 raises: caught at line 352
InstallVersionsFail ==
    /\ cmd = "install" /\ pc = "install_loop"
    /\ i <= Len(to_install)
    /\ log' = Append(log, Ev("get_versions", to_install[i].id, i, "error", << >>))
    /\ out' = Append(out, Msg("E: Failed to install", {to_install[i].slug}))
    /\ i' = i + 1
    /\ UNCHANGED <<cmd, pc, dirExists, dir, dir0, removeVars, installVars, upgradeVars, dl>>

\* lines 344-351 with the answer `ids` of get_versions
InstallVersions(ids) ==
    /\ IF ids = << >>
       THEN /\ log' = Append(log, Ev("get_versions", to_install[i].id, i, "ok", ids))
            /\ out' = Append(out, Msg("E: No compatible versions for", {to_install[i].slug}))
            /\ i' = i + 1
            /\ UNCHANGED <<pc, dl>>
       ELSE LET latest == Version(ids[1]) IN
            IF latest.files = << >>
            THEN \* latest["files"][0] raises IndexError: caught at line 352
                 /\ log' = Append(log, Ev("get_versions", to_install[i].id, i, "ok", ids))
                 /\ out' = Append(out, Msg("E: Failed to install", {to_install[i].slug}))
                 /\ i' = i + 1
                 /\ UNCHANGED <<pc, dl>>
            ELSE /\ DownloadCall(PrimaryFile(latest.files), dir,
                                 Append(log, Ev("get_versions", to_install[i].id, i, "ok", ids)))
                 /\ UNCHANGED <<out, i>>
    /\ UNCHANGED <<cmd, dirExists, dir, dir0, removeVars, installVars, upgradeVars>>

InstallItem ==
    /\ cmd = "install" /\ pc = "install_loop"
    /\ i <= Len(to_install)
    /\ \E ids \in VersionLists(to_install[i].id) : InstallVersions(ids)

\* the loop of line 342 is over
InstallEnd ==
    /\ cmd = "install" /\ pc = "install_loop"
    /\ i > Len(to_install)
    /\ pc' = "done"
    /\ UNCHANGED <<cmd, dirExists, dir, dir0, out, log, removeVars, installVars, upgradeVars, i, dl>>

Install ==
    \/ InstallNoPackages
    \/ InstallStart
    \/ InstallResolve
    \/ InstallResolveRaises
    \/ InstallPlanned
    \/ InstallVersionsFail
    \/ InstallItem
    \/ InstallEnd
    \/ Download

SpecInstall == InitInstall /\ [][Install]_vars

(***************************************************************************)
(* Local inventory and the bulk lookup, shared by upgrade and list.        *)
(***************************************************************************)
\* get_installed_plugins without the extension test of line 106
get_installed_plugins_any(order) ==
    IF ~dirExists THEN << >>
    ELSE [n \in 1..Len(order) |-> <<order[n], calculate_sha1(dir[order[n]])>>]

\* PackageManager.get_installed_plugins over one os.listdir order
get_installed_plugins(order) ==
    IF ~dirExists THEN << >>
    ELSE LET jars == SelectSeq(order, IsJar) IN
         [n \in 1..Len(jars) |-> <<jars[n], calculate_sha1(dir[jars[n]])>>]

\* list(d.values())
DictValues(d) == [n \in 1..Len(d) |-> d[n][2]]

\* {v: k for k, v in d.items()}
RECURSIVE InvertDict(_)
InvertDict(d) ==
    IF d = << >> THEN << >>
    ELSE LET last == d[Len(d)] IN
         DictSet(InvertDict(SubSeq(d, 1, Len(d) - 1)), last[2], last[1])

\* d.get(key, default)
DictGetDefault(d, key, default) ==
    IF DictHas(d, key) THEN DictGet(d, key) ELSE default

\* The answers POST /version_files can give for `hashes`: one entry per hash
\* the catalogue knows, in any order; a hash it does not know is left out,
\* or (nullable) answered with null.  An entry's value is <<record>> or,
\* for null, << >>.
BulkAnswers(hashes) ==
    LET known   == {h \in Range(hashes) : VersionOfHash(h) # {}}
        unknown == Range(hashes) \ known
        value(h) == IF h \in known
                    THEN <<Version(CHOOSE id \in VersionOfHash(h) : TRUE)>>
                    ELSE << >>
    IN  UNION {{[n \in 1..Len(order) |-> <<order[n], value(order[n])>>] :
                   order \in Perms(keys)} :
               keys \in {known, known \cup unknown}}

\* ModrinthAPI.get_versions_by_hashes, lines 53-54: without a hash no request
\* is sent and the answer is empty
BulkRequested(hashes) == hashes # << >>

(***************************************************************************)
(* upgrade                                                                 *)
(***************************************************************************)
\* what the plugin files hold when upgrade or list starts: files of the
\* registry's versions, or files of local origin
InstalledContents == {Full("u_v1"), Full("u_w1"), LocalContent}

InitUpgrade ==
    /\ InitDir(InstalledContents)
    /\ cmd = "upgrade"
    /\ pc = "upgrade"
    /\ NoRemove
    /\ NoInstall
    /\ NoUpgrade

\* UpgradeScan without the check of line 365: an empty inventory goes on to
\* the bulk lookup
UpgradeScanGoesOn ==
    /\ cmd = "upgrade" /\ pc = "upgrade"
    /\ \E order \in Perms(DOMAIN dir) :
          installed' = get_installed_plugins(order)
    /\ pc' = "bulk"
    /\ UNCHANGED <<cmd, dirExists, dir, dir0, out, log, removeVars, installVars,
                   versions_map, sha1_to_filename, updates, i, dl>>

\* lines 363-369: the inventory; nothing installed ends the command
UpgradeScan ==
    /\ cmd = "upgrade" /\ pc = "upgrade"
    /\ \E order \in Perms(DOMAIN dir) :
          installed' = get_installed_plugins(order)
    /\ IF installed' = << >>
       THEN /\ out' = Append(out, Msg("0 upgraded", {}))
            /\ pc' = "done"
       ELSE /\ pc' = "bulk"
            /\ UNCHANGED out
    /\ UNCHANGED <<cmd, dirExists, dir, dir0, log, removeVars, installVars,
                   versions_map, sha1_to_filename, updates, i, dl>>

\* UpgradeBulkFails with the error swallowed: reconciliation goes on over an
\* empty answer
UpgradeBulkFailsGoesOn ==
    /\ cmd = "upgrade" /\ pc = "bulk"
    /\ log' = Append(log, Ev("get_versions_by_hashes", "", 0, "error", << >>))
    /\ versions_map' = << >>
    /\ sha1_to_filename' = InvertDict(installed)
    /\ i' = 1
    /\ pc' = "plan"
    /\ UNCHANGED <<cmd, dirExists, dir, dir0, out, removeVars, installVars,
                   installed, updates, dl>>

\* lines 375-377: get_versions_by_hashes raises
UpgradeBulkFails ==
    /\ cmd = "upgrade" /\ pc = "bulk"
    /\ BulkRequested(DictValues(installed))
    /\ log' = Append(log, Ev("get_versions_by_hashes", "", 0, "error", << >>))
    /\ out' = Append(out, Msg("E: Failed to check for updates", {}))
    /\ pc' = "done"
    /\ UNCHANGED <<cmd, dirExists, dir, dir0, removeVars, installVars, upgradeVars, i, dl>>

\* lines 372-382: the bulk answer, and installed inverted
UpgradeBulk ==
    /\ cmd = "upgrade" /\ pc = "bulk"
    /\ versions_map' \in BulkAnswers(DictValues(installed))
    /\ sha1_to_filename' = InvertDict(installed)
    /\ log' = IF BulkRequested(DictValues(installed))
              THEN Append(log, Ev("get_versions_by_hashes", "", 0, "ok", << >>))
              ELSE log
    /\ i' = 1
    /\ pc' = "plan"
    /\ UNCHANGED <<cmd, dirExists, dir, dir0, out, removeVars, installVars,
                   installed, updates, dl>>

\* lines 385-386: a null entry is passed over
PlanSkipNull ==
    /\ cmd = "upgrade" /\ pc = "plan"
    /\ i <= Len(versions_map)
    /\ versions_map[i][2] = << >>
    /\ i' = i + 1
    /\ UNCHANGED <<cmd, pc, dirExists, dir, dir0, out, log, removeVars, installVars, upgradeVars, dl>>

\* lines 394, 409-410: get_versions raises and the entry is passed over
PlanVersionsFail ==
    /\ cmd = "upgrade" /\ pc = "plan"
    /\ i <= Len(versions_map)
    /\ versions_map[i][2] # << >>
    /\ log' = Append(log, Ev("get_versions", versions_map[i][2][1].project_id, i, "error", << >>))
    /\ i' = i + 1
    /\ UNCHANGED <<cmd, pc, dirExists, dir, dir0, out, removeVars, installVars, upgradeVars, dl>>

\* lines 388-408 with the answer `ids` of get_versions
PlanVersions(ids) ==
    LET file_sha1    == versions_map[i][1]
        version_info == versions_map[i][2][1]
    IN  /\ log' = Append(log, Ev("get_versions", version_info.project_id, i, "ok", ids))
        /\ IF ids # << >> /\ Version(ids[1]).id # version_info.id
           THEN updates' = Append(updates,
                    [filename |-> DictGetDefault(sha1_to_filename, file_sha1, "Unknown"),
                     project_id |-> version_info.project_id,
                     current_version |-> version_info.version_number,
                     new_version |-> Version(ids[1]).version_number,
                     latest_obj |-> Version(ids[1])])
           ELSE UNCHANGED updates
        /\ i' = i + 1
        /\ UNCHANGED <<cmd, pc, dirExists, dir, dir0, out, removeVars, installVars,
                       installed, versions_map, sha1_to_filename, dl>>

PlanItem ==
    /\ cmd = "upgrade" /\ pc = "plan"
    /\ i <= Len(versions_map)
    /\ versions_map[i][2] # << >>
    /\ \E ids \in VersionLists(versions_map[i][2][1].project_id) : PlanVersions(ids)

\* lines 412-422: nothing to upgrade ends the command, else the plan is
\* printed, one line per upgrade
PlanEnd ==
    /\ cmd = "upgrade" /\ pc = "plan"
    /\ i > Len(versions_map)
    /\ IF updates = << >>
       THEN /\ out' = Append(out, Msg("0 upgraded", {}))
            /\ pc' = "done"
       ELSE /\ out' = out \o [n \in 1..Len(updates) |->
                                Msg("will be upgraded", {updates[n].filename})]
            /\ pc' = "confirm"
    /\ UNCHANGED <<cmd, dirExists, dir, dir0, log, removeVars, installVars, upgradeVars, i, dl>>

\* UpgradeDeclined without the return of line 430: the upgrades are applied
UpgradeDeclinedGoesOn ==
    /\ cmd = "upgrade" /\ pc = "confirm"
    /\ out' = Append(out, Msg("Abort.", {}))
    /\ i' = 1
    /\ pc' = "apply"
    /\ UNCHANGED <<cmd, dirExists, dir, dir0, log, removeVars, installVars, upgradeVars, dl>>

\* lines 428-430: click.confirm
UpgradeDeclined ==
    /\ cmd = "upgrade" /\ pc = "confirm"
    /\ out' = Append(out, Msg("Abort.", {}))
    /\ pc' = "done"
    /\ UNCHANGED <<cmd, dirExists, dir, dir0, log, removeVars, installVars, upgradeVars, i, dl>>

UpgradeConfirmed ==
    /\ cmd = "upgrade" /\ pc = "confirm"
    /\ i' = 1
    /\ pc' = "apply"
    /\ UNCHANGED <<cmd, dirExists, dir, dir0, out, log, removeVars, installVars, upgradeVars, dl>>

\* ApplySkipNoFiles with the old file removed before the files are looked at
ApplySkipNoFilesRemoves ==
    /\ cmd = "upgrade" /\ pc = "apply"
    /\ i <= Len(updates)
    /\ updates[i].latest_obj.files = << >>
    /\ dir' = [f \in DOMAIN dir \ {updates[i].filename} |-> dir[f]]
    /\ i' = i + 1
    /\ UNCHANGED <<cmd, pc, dirExists, dir0, out, log, removeVars, installVars, upgradeVars, dl>>

\* lines 433-436: an upgrade whose latest version has no file is passed over
ApplySkipNoFiles ==
    /\ cmd = "upgrade" /\ pc = "apply"
    /\ i <= Len(updates)
    /\ updates[i].latest_obj.files = << >>
    /\ i' = i + 1
    /\ UNCHANGED <<cmd, pc, dirExists, dir, dir0, out, log, removeVars, installVars, upgradeVars, dl>>

\* lines 438-447: the old file is removed if it is there, then download_file
\* is called
ApplyItem ==
    /\ cmd = "upgrade" /\ pc = "apply"
    /\ i <= Len(updates)
    /\ updates[i].latest_obj.files # << >>
    /\ LET primary_file == PrimaryFile(updates[i].latest_obj.files)
           old          == updates[i].filename
           exists       == old \in DOMAIN dir
           removed      == [f \in DOMAIN dir \ {old} |-> dir[f]]
           logged       == IF exists
                           THEN Append(log, Ev("os.remove", old, i, "ok", << >>))
                           ELSE log
       IN /\ dir' = removed
          /\ DownloadCall(primary_file, removed, logged)
    /\ UNCHANGED <<cmd, dirExists, dir0, out, removeVars, installVars, upgradeVars, i>>

\* the loop of line 432 is over
ApplyEnd ==
    /\ cmd = "upgrade" /\ pc = "apply"
    /\ i > Len(updates)
    /\ pc' = "done"
    /\ UNCHANGED <<cmd, dirExists, dir, dir0, out, log, removeVars, installVars, upgradeVars, i, dl>>

Upgrade ==
    \/ UpgradeScan
    \/ UpgradeBulkFails
    \/ UpgradeBulk
    \/ PlanSkipNull
    \/ PlanVersionsFail
    \/ PlanItem
    \/ PlanEnd
    \/ UpgradeDeclined
    \/ UpgradeConfirmed
    \/ ApplySkipNoFiles
    \/ ApplyItem
    \/ ApplyEnd
    \/ Download

SpecUpgrade == InitUpgrade /\ [][Upgrade]_vars

(***************************************************************************)
(* list                                                                    *)
(***************************************************************************)
InitList ==
    /\ InitDir(InstalledContents)
    /\ cmd = "list"
    /\ pc = "list"
    /\ NoRemove
    /\ NoInstall
    /\ NoUpgrade

\* lines 190-200
ListScan ==
    /\ cmd = "list" /\ pc = "list"
    /\ \E order \in Perms(DOMAIN dir) :
          installed' = get_installed_plugins(order)
    /\ IF installed' = << >>
       THEN /\ out' = Append(out, Msg("No plugins installed.", {}))
            /\ pc' = "done"
       ELSE /\ pc' = "bulk"
            /\ UNCHANGED out
    /\ UNCHANGED <<cmd, dirExists, dir, dir0, log, removeVars, installVars,
                   versions_map, sha1_to_filename, updates, i, dl>>

\* lines 211-213
ListBulkFails ==
    /\ cmd = "list" /\ pc = "bulk"
    /\ BulkRequested(DictValues(installed))
    /\ log' = Append(log, Ev("get_versions_by_hashes", "", 0, "error", << >>))
    /\ out' = Append(out, Msg("E: Failed to resolve versions", {}))
    /\ pc' = "done"
    /\ UNCHANGED <<cmd, dirExists, dir, dir0, removeVars, installVars, upgradeVars, i, dl>>

\* lines 224-262: the row of one entry of sha1_to_filename
ListRow(entry, answer) ==
    IF DictHas(answer, entry[1]) /\ DictGet(answer, entry[1]) # << >>
    THEN Msg("row", {DictGet(answer, entry[1])[1].project_id,
                     DictGet(answer, entry[1])[1].version_number})
    ELSE Msg("row", {entry[2], "unknown"})

\* lines 208-266: the bulk answer, installed inverted, one row per entry
ListBulk ==
    /\ cmd = "list" /\ pc = "bulk"
    /\ versions_map' \in BulkAnswers(DictValues(installed))
    /\ sha1_to_filename' = InvertDict(installed)
    /\ log' = IF BulkRequested(DictValues(installed))
              THEN Append(log, Ev("get_versions_by_hashes", "", 0, "ok", << >>))
              ELSE log
    /\ out' = out \o [n \in 1..Len(sha1_to_filename') |->
                        ListRow(sha1_to_filename'[n], versions_map')]
    /\ pc' = "done"
    /\ UNCHANGED <<cmd, dirExists, dir, dir0, removeVars, installVars,
                   installed, updates, i, dl>>

List ==
    \/ ListScan
    \/ ListBulkFails
    \/ ListBulk

SpecList == InitList /\ [][List]_vars

(***************************************************************************)
(* One run of any command.                                                 *)
(***************************************************************************)
Init == InitRemove \/ InitList \/ InitInstall \/ InitUpgrade

Next == Remove \/ List \/ Install \/ Upgrade

Spec == Init /\ [][Next]_vars

(***************************************************************************)
(* Properties.                                                             *)
(***************************************************************************)
\* the positions of log, and of out
LogIdx == 1..Len(log)
OutIdx == 1..Len(out)

\* the last event of the log is a failed download
JustFailed ==
    /\ log # << >>
    /\ log[Len(log)].ev = "download"
    /\ log[Len(log)].res = "failed"

\* ... and the destination had been opened: the failure came mid-stream
JustFailedMidStream ==
    /\ JustFailed
    /\ Len(log) >= 2
    /\ log[Len(log) - 1].ev = "open"

\* C1: remove with a pattern that matches more than one installed .jar
\* ends in an error that carries the matching candidates, and deletes
\* nothing.
C1_AmbiguousCarriesCandidates ==
    (cmd = "remove" /\ pc = "done" /\ Len(candidates) > 1) =>
        /\ \E n \in OutIdx :
              /\ out[n].kind = "E: Multiple candidates found"
              /\ Range(candidates) \subseteq out[n].names
        /\ dir = dir0

\* C2: a transport failure in the middle of the fetch of install leaves no
\* partially written destination: the file is absent or holds what it held
\* before the call, and the error printed names the file.
C2_InstallFailureLeavesNoPartialFile ==
    (cmd = "install" /\ JustFailedMidStream) =>
        /\ \/ dl.filename \notin DOMAIN dir
           \/ dl.before # << >> /\ dir[dl.filename] = dl.before[1]
        /\ dl.filename \in out[Len(out)].names

\* the bulk lookup of upgrade has answered
BulkAnswered ==
    /\ cmd = "upgrade"
    /\ \E n \in LogIdx : log[n].ev = "get_versions_by_hashes" /\ log[n].res = "ok"

\* the bulk lookup of upgrade has failed
BulkFailed ==
    /\ cmd = "upgrade"
    /\ \E n \in LogIdx : log[n].ev = "get_versions_by_hashes" /\ log[n].res = "error"

\* reconciliation (the loop of line 384) is over
PlanOver == BulkAnswered /\ pc # "plan"

\* the hash of installed file f, and its place in the bulk answer
HashOf(f) == DictGet(installed, f)
EntryOf(f) == DictPos(versions_map, HashOf(f))

\* the hash of installed file f resolved to a version record
Resolved(f) ==
    /\ DictHas(versions_map, HashOf(f))
    /\ DictGet(versions_map, HashOf(f)) # << >>

InfoOf(f) == DictGet(versions_map, HashOf(f))[1]

\* an upgrade was emitted for file f
HasUpdate(f) == \E n \in 1..Len(updates) : updates[n].filename = f

\* log[n] is the start of the download for item k
IsStart(n, k) ==
    log[n].ev = "download" /\ log[n].res = "start" /\ log[n].item = k

\* C3: in upgrade the old file is deleted (when it exists) before the fetch
\* of the new one starts, and when that fetch fails the old filename is not
\* in the install directory.
C3_UpgradeFailureLeavesPackageAbsent ==
    /\ (cmd = "upgrade" /\ pc = "dl_get") => updates[i].filename \notin DOMAIN dir
    /\ cmd = "upgrade" =>
          \A n \in LogIdx : log[n].ev = "os.remove" =>
              n < Len(log) /\ IsStart(n + 1, log[n].item)
    /\ (cmd = "upgrade" /\ JustFailed) =>
          updates[log[Len(log)].item].filename \notin DOMAIN dir

\* C4: an installed file whose hash resolved gets an upgrade exactly when
\* the first version get_versions returned for its project is not the
\* installed one; when it is, the file is not deleted.
C4_UpgradeIffLatestDiffers ==
    PlanOver =>
        \A f \in DictKeys(installed) : Resolved(f) =>
            \A n \in LogIdx :
                (/\ log[n].ev = "get_versions" /\ log[n].item = EntryOf(f)
                 /\ log[n].res = "ok" /\ log[n].ids # << >>) =>
                    /\ HasUpdate(f) <=> (log[n].ids[1] # InfoOf(f).id)
                    /\ log[n].ids[1] = InfoOf(f).id =>
                          ~\E m \in LogIdx : log[m].ev = "os.remove" /\ log[m].name = f

\* C5: filenames that share a content hash are all retained by the
\* hash-to-filename join, and each gets its own action.
C5_DuplicateHashFilenamesRetained ==
    PlanOver =>
        /\ \A f \in DictKeys(installed) :
              \E n \in 1..Len(sha1_to_filename) : sha1_to_filename[n][2] = f
        /\ \A f, g \in DictKeys(installed) :
              HashOf(f) = HashOf(g) => (HasUpdate(f) <=> HasUpdate(g))

\* the kinds of the lines that report an error
ErrorKinds ==
    {"E: Unable to locate package", "E: Multiple candidates found",
     "E: No packages specified.", "E: No compatible versions for",
     "E: Failed to install", "E: Failed to upgrade",
     "E: Failed to check for updates", "E: Failed to resolve versions"}

\* C6: when get_versions fails for one project, every other resolved entry
\* is still queried, and the failure is reported, naming the project or
\* its file.
C6_VersionsFailureIsolatedAndReported ==
    PlanOver =>
        \A n \in LogIdx : (log[n].ev = "get_versions" /\ log[n].res = "error") =>
            /\ \A k \in 1..Len(versions_map) : versions_map[k][2] # << >> =>
                  \E m \in LogIdx : log[m].ev = "get_versions" /\ log[m].item = k
            /\ \E m \in OutIdx :
                  /\ out[m].kind \in ErrorKinds
                  /\ \/ log[n].name \in out[m].names
                     \/ DictGetDefault(sha1_to_filename, versions_map[log[n].item][1],
                                       "Unknown") \in out[m].names

\* C7: when the bulk lookup fails, upgrade ends there: no get_versions call,
\* no upgrade emitted or announced, no file deleted, opened or written, and
\* the error is printed.
C7_BulkFailureIsFatal ==
    BulkFailed =>
        /\ pc = "done"
        /\ \A n \in LogIdx : log[n].ev = "get_versions_by_hashes"
        /\ updates = << >>
        /\ dir = dir0
        /\ \A m \in OutIdx : out[m].kind # "will be upgraded"
        /\ \E m \in OutIdx : out[m].kind = "E: Failed to check for updates"

\* a run over two installed files, one of them a registry file, whose bulk
\* lookup failed
C7_Witness ==
    /\ BulkFailed
    /\ pc = "done"
    /\ Len(installed) = 2
    /\ \E f \in DictKeys(installed) : dir[f] = Full("u_v1")

\* the items of the batch of install or upgrade
BatchLen == IF cmd = "install" THEN Len(to_install) ELSE Len(updates)

\* the transfer of item k of install is due: get_versions answered with a
\* latest version that has a file
InstallDue(k) ==
    \E m \in LogIdx :
        /\ log[m].ev = "get_versions" /\ log[m].item = k /\ log[m].res = "ok"
        /\ log[m].ids # << >>
        /\ Version(log[m].ids[1]).files # << >>

\* C8: after the fetch for one item of install or upgrade has failed, every
\* later item of the batch is still processed and its transfer, when one is
\* due, is started; the transfers start in the order of the batch.
C8_TransferFailureDoesNotAbortBatch ==
    (cmd \in {"install", "upgrade"} /\ pc = "done") =>
        /\ \A n \in LogIdx : (log[n].ev = "download" /\ log[n].res = "failed") =>
              \A k \in (log[n].item + 1)..BatchLen :
                  IF cmd = "install"
                  THEN /\ \E m \in LogIdx :
                             m > n /\ log[m].ev = "get_versions" /\ log[m].item = k
                       /\ InstallDue(k) => \E m \in LogIdx : m > n /\ IsStart(m, k)
                  ELSE updates[k].latest_obj.files # << >> =>
                          \E m \in LogIdx : m > n /\ IsStart(m, k)
        /\ \A m1, m2 \in LogIdx :
              (/\ m1 < m2
               /\ log[m1].ev = "download" /\ log[m1].res = "start"
               /\ log[m2].ev = "download" /\ log[m2].res = "start") =>
                  log[m1].item < log[m2].item

\* an upgrade that ended after the fetch of its first item failed and the
\* transfer of its second item was started
C8_Witness ==
    /\ cmd = "upgrade" /\ pc = "done"
    /\ \E n, m \in LogIdx :
          /\ n < m
          /\ log[n].ev = "download" /\ log[n].res = "failed" /\ log[n].item = 1
          /\ IsStart(m, 2)

\* C9: an installed file whose hash the bulk answer does not resolve is
\* reported by name, no get_versions call is made for it, and upgrade
\* neither deletes nor replaces it.
C9_UnresolvedReportedAndUntouched ==
    PlanOver =>
        \A f \in DictKeys(installed) : ~Resolved(f) =>
            /\ \E m \in OutIdx : f \in out[m].names
            /\ ~\E n \in LogIdx :
                  /\ log[n].ev = "get_versions"
                  /\ log[n].item = EntryOf(f)
            /\ f \in DOMAIN dir /\ dir[f] = dir0[f]

\* C10: the upgrades emitted, and the transfers that apply them, are in the
\* enumeration order of the installed files.
C10_ActionsInInventoryOrder ==
    PlanOver =>
        /\ \A a, b \in 1..Len(updates) : a < b =>
              DictPos(installed, updates[a].filename)
                  < DictPos(installed, updates[b].filename)
        /\ \A m1, m2 \in LogIdx :
              (/\ m1 < m2
               /\ log[m1].ev = "download" /\ log[m1].res = "start"
               /\ log[m2].ev = "download" /\ log[m2].res = "start") =>
                  DictPos(installed, updates[log[m1].item].filename)
                      < DictPos(installed, updates[log[m2].item].filename)

\* the installed .jar files whose name contains pattern, case ignored
MatchesOf(pattern) ==
    {f \in DOMAIN dir0 :
       IsJar(f) /\ Contains(Lower(Chars(f)), Lower(Chars(pattern)))}

\* C11: remove deletes a file only when exactly one installed .jar filename
\* contains the pattern, case ignored; it then deletes that file and leaves
\* every other file as it was.  With no match (a missing install directory
\* included) it reports that the package was not found and the directory is
\* unchanged.
C11_RemoveDeletesOnlyUniqueMatch ==
    (cmd = "remove" /\ pc = "done") =>
        LET M == MatchesOf(package) IN
        /\ Cardinality(M) = 1 =>
              \E f \in M :
                 /\ DOMAIN dir = DOMAIN dir0 \ {f}
                 /\ \A g \in DOMAIN dir : dir[g] = dir0[g]
        /\ Cardinality(M) # 1 => dir = dir0
        /\ M = {} =>
              /\ Len(out) = 1
              /\ out[1] = Msg("E: Unable to locate package", {package})
        /\ ~dirExists => M = {}

\* remove f deleted F1.jar, its only match, and left another file in place
C11_Witness ==
    /\ cmd = "remove" /\ pc = "done"
    /\ package = "f"
    /\ MatchesOf(package) = {"F1.jar"}
    /\ "F1.jar" \notin DOMAIN dir
    /\ DOMAIN dir # {}

\* C12: install with no package argument makes no registry call and no
\* fetch, and reports the input error.
C12_InstallNothingMakesNoCall ==
    (cmd = "install" /\ packages = << >>) =>
        /\ log = << >>
        /\ dir = dir0
        /\ pc \in {"install", "done"}
        /\ pc = "done" => out = <<Msg("E: No packages specified.", {})>>

\* install without arguments has ended
C12_Witness ==
    /\ cmd = "install" /\ packages = << >>
    /\ pc = "done"
    /\ out # << >>

\* the get_project calls answered 404, and the lines that report them
NotFoundCalls ==
    {n \in LogIdx : log[n].ev = "get_project" /\ log[n].res = "404"}
NotFoundLines ==
    {m \in OutIdx : out[m].kind = "E: Unable to locate package"}

\* C13: in an install of several packages, an argument the registry does
\* not know is reported, once per such argument, and does not end the
\* batch: every other argument is still looked up, and every argument that
\* resolves to a project gets its get_versions call and, when that answers
\* a version with files, its transfer started.
C13_UnknownProjectDoesNotAbort ==
    cmd = "install" =>
        /\ Cardinality(NotFoundLines) = Cardinality(NotFoundCalls)
        /\ \A n \in NotFoundCalls :
              /\ \E m \in NotFoundLines : out[m].names = {log[n].name}
              /\ pc = "done" =>
                    \A k \in 1..Len(packages) :
                       /\ \E m \in LogIdx :
                             log[m].ev = "get_project" /\ log[m].item = k
                       /\ ProjectOf(packages[k]) # << >> =>
                             \E j \in 1..Len(to_install), m \in LogIdx :
                                /\ to_install[j] = ProjectOf(packages[k])[1]
                                /\ log[m].ev = "get_versions"
                                /\ log[m].name = to_install[j].id
                                /\ log[m].item = j
                                /\ (/\ log[m].res = "ok"
                                    /\ log[m].ids # << >>
                                    /\ Version(log[m].ids[1]).files # << >>) =>
                                       m < Len(log) /\ IsStart(m + 1, j)

\* install nope alpha: the first argument was answered 404 and the file of
\* the second was fetched
C13_Witness ==
    /\ cmd = "install" /\ pc = "done"
    /\ packages = <<"nope", "alpha">>
    /\ \E n \in NotFoundCalls : log[n].item = 1
    /\ \E m \in LogIdx : log[m].ev = "download" /\ log[m].res = "done"

\* no plugin file when the command started: no install directory, or none
\* of its files is a .jar
NothingInstalled ==
    \/ ~dirExists
    \/ ~\E f \in DOMAIN dir0 : IsJar(f)

\* C14: with nothing installed (no .jar file, or no install directory)
\* upgrade ends right after the inventory with no upgrade, makes no registry
\* call and no fetch, and changes no file.
C14_EmptyInventoryShortCircuits ==
    (cmd = "upgrade" /\ NothingInstalled) =>
        /\ log = << >>
        /\ dir = dir0
        /\ installed = << >>
        /\ updates = << >>
        /\ pc \in {"upgrade", "done"}
        /\ pc = "done" => out = <<Msg("0 upgraded", {})>>

\* upgrade has ended over a directory that holds files but no .jar
C14_Witness ==
    /\ cmd = "upgrade" /\ pc = "done"
    /\ dirExists
    /\ DOMAIN dir0 = {"f.txt"}
    /\ NothingInstalled
    /\ log = << >>

\* the files of the version whose fetch has just been called: in install the
\* first version of the get_versions answer just logged, in upgrade the
\* latest version of the running upgrade
FetchedVersionFiles ==
    IF cmd = "install"
    THEN Version(log[Len(log) - 1].ids[1]).files
    ELSE updates[i].latest_obj.files

\* C15: the file fetched for a version, in install and in upgrade, is the
\* file of the version flagged primary; when none is flagged, it is the
\* version's first file.
C15_FetchedFileIsPrimaryElseFirst ==
    pc = "dl_get" =>
        LET files == FetchedVersionFiles IN
        \E n \in 1..Len(files) :
           /\ dl.url = files[n].url
           /\ dl.filename = files[n].filename
           /\ IF \E m \in 1..Len(files) : files[m].primary
              THEN files[n].primary
              ELSE n = 1

\* install fetches the primary file of v2, which is not its first file
C15_Witness ==
    /\ cmd = "install" /\ pc = "dl_get"
    /\ log[Len(log) - 1].ev = "get_versions"
    /\ log[Len(log) - 1].ids = <<"v2", "v1">>
    /\ dl.url = "u_v2"

\* upgrade fetches the first file of w2, none of whose files is flagged
C15_WitnessUpgrade ==
    /\ cmd = "upgrade" /\ pc = "dl_get"
    /\ updates[i].latest_obj.id = "w2"
    /\ dl.url = "u_w2"

\* the filenames of the model that carry the plugin extension
JarNames == {"F1.jar", "f2.jar", "g.jar"}

\* C16: the inventory holds exactly the files of the install directory
\* that carry the .jar extension, one entry per filename, each with the
\* hash of the file's content; files with another extension are not in it,
\* and a missing directory gives the empty inventory.
C16_InventoryIsTheJarFiles ==
    (cmd = "list" /\ pc # "list") =>
        /\ DictKeys(installed) = DOMAIN dir0 \cap JarNames
        /\ Len(installed) = Cardinality(DictKeys(installed))
        /\ \A n \in 1..Len(installed) :
              installed[n][2] = calculate_sha1(dir0[installed[n][1]])
        /\ ~dirExists => installed = << >>

\* the inventory of a directory with two plugins of different content and
\* a text file
C16_Witness ==
    /\ cmd = "list" /\ pc # "list"
    /\ DOMAIN dir0 = {"F1.jar", "g.jar", "f.txt"}
    /\ dir0["F1.jar"] # dir0["g.jar"]
    /\ Len(installed) = 2

\* the file operations logged: deletions, and opens of a destination
FileOps == {n \in LogIdx : log[n].ev \in {"os.remove", "open"}}

\* C17: upgrade changes nothing in the install directory before the
\* confirmation: through inventory, bulk lookup, reconciliation and the
\* prompt no file is deleted or written, and when the confirmation is
\* declined the command ends with the directory as it was at the start.
C17_NoMutationBeforeConfirmation ==
    cmd = "upgrade" =>
        /\ pc \in {"upgrade", "bulk", "plan", "confirm"} =>
              dir = dir0 /\ FileOps = {}
        /\ (\E m \in OutIdx : out[m].kind = "Abort.") =>
              /\ pc = "done"
              /\ dir = dir0
              /\ FileOps = {}

\* two upgrades were announced and the confirmation was declined
C17_Witness ==
    /\ cmd = "upgrade" /\ pc = "done"
    /\ Len(updates) = 2
    /\ out[Len(out)].kind = "Abort."

\* no fetch of this run has failed
NoFetchFailed ==
    ~\E n \in LogIdx : log[n].ev = "download" /\ log[n].res = "failed"

\* the starts of the transfers of upgrade: one per upgrade applied
AppliedStarts ==
    {n \in LogIdx : log[n].ev = "download" /\ log[n].res = "start"}

\* C18: when upgrade has run to its end and no fetch failed, the new file of
\* every upgrade applied is in the install directory, also when the new
\* filename of one upgrade is the old filename of another.
C18_NewArtifactsPresentAtEnd ==
    (cmd = "upgrade" /\ pc = "done" /\ NoFetchFailed) =>
        \A n \in AppliedStarts : log[n].name \in DOMAIN dir

\* C18 for the runs where no upgrade's new filename is the old filename of
\* an upgrade applied after it
C18_WithoutNameChain ==
    (/\ cmd = "upgrade" /\ pc = "done" /\ NoFetchFailed
     /\ \A a, b \in AppliedStarts :
           a < b => log[a].name # updates[log[b].item].filename) =>
        \A n \in AppliedStarts : log[n].name \in DOMAIN dir

\* the filenames the upgrades applied so far work on: the old file and the
\* file fetched, of every upgrade whose transfer was started
TouchedNames ==
    UNION {{updates[log[n].item].filename, log[n].name} : n \in AppliedStarts}

\* C19: upgrade touches only the files of the upgrades it applies: a file
\* of the start directory whose name is neither the old filename nor the
\* fetched filename of an upgrade applied is there with its content
\* unchanged, in every state of the command and whatever fetch fails.
C19_OtherFilesUntouched ==
    cmd = "upgrade" =>
        \A f \in DOMAIN dir0 :
           f \notin TouchedNames => f \in DOMAIN dir /\ dir[f] = dir0[f]

\* upgrade has ended: one upgrade was passed over (no file to fetch), the
\* other was applied and its fetch failed, and a text file is in the
\* directory
C19_Witness ==
    /\ cmd = "upgrade" /\ pc = "done"
    /\ Len(updates) = 2
    /\ AppliedStarts # {}
    /\ ~NoFetchFailed
    /\ \E k \in 1..Len(updates) :
          /\ updates[k].latest_obj.files = << >>
          /\ updates[k].filename \notin TouchedNames
    /\ "f.txt" \in DOMAIN dir0

\* the apply loop of upgrade has run to its end
ApplyOver ==
    /\ cmd = "upgrade" /\ pc = "done"
    /\ updates # << >>
    /\ ~\E m \in OutIdx : out[m].kind = "Abort."

\* the upgrades whose latest version has no file
NoFileUpdates == {k \in 1..Len(updates) : updates[k].latest_obj.files = << >>}

\* C20: an upgrade whose latest version has no file is passed over before
\* any deletion: its old file is in the directory, unchanged, after upgrade,
\* and the other upgrades are still applied.
C20_SkippedActionKeepsOldFile ==
    ApplyOver =>
        \A k \in NoFileUpdates :
           /\ updates[k].filename \in DOMAIN dir
           /\ dir[updates[k].filename] = dir0[updates[k].filename]
           /\ \A j \in 1..Len(updates) \ NoFileUpdates :
                 \E n \in AppliedStarts : log[n].item = j

\* C20 with the old file's content claimed only when no upgrade applied
\* fetched a file of that name
C20_WithoutNameClash ==
    ApplyOver =>
        \A k \in NoFileUpdates :
           /\ updates[k].filename \in DOMAIN dir
           /\ (~\E n \in AppliedStarts : log[n].name = updates[k].filename) =>
                 dir[updates[k].filename] = dir0[updates[k].filename]
           /\ ~\E n \in LogIdx :
                 log[n].ev = "os.remove" /\ log[n].name = updates[k].filename
           /\ \A j \in 1..Len(updates) \ NoFileUpdates :
                 \E n \in AppliedStarts : log[n].item = j

====
